---- MODULE Spec2Model ----
(***************************************************************************)
(* A model of the GPT4All controller of src/src/gpt4all.ts: the session    *)
(* controller (open / close / prompt and the callbacks they install on the *)
(* child process's stdout) and the provisioner (init and the downloads).   *)
(*                                                                         *)
(* JavaScript runs each call and each callback to completion, so every     *)
(* action below is one call or one callback, taken atomically.  Text is a  *)
(* sequence of characters; a character is a one-element token: "ESC" is    *)
(* U+001B, "LF" is the newline, the others stand for themselves.           *)
(***************************************************************************)
EXTENDS Naturals, Integers, Sequences, FiniteSets, TLC

VARIABLES
    bot,      \* this.bot: Null or the index in procs of the process held
    procs,    \* every child process spawned so far, in spawn order
    opens,    \* every open() call: its process and its promise
    calls,    \* every prompt() call that got past the null check
    ret,      \* the last public call and how it returned
    ncalls,   \* number of public calls made
    nevents,  \* number of stdout events (data, error) delivered
    crashed,  \* an 'error' event found no listener: uncaught exception
    inst,     \* the outcome of new GPT4All(model): the instance or the throw
    host,     \* os.platform() and the answer of uname -m
    fs,       \* the file system: which paths exist
    initp,    \* the init() call: its argument and its promise
    dl,       \* the download of each artifact started by init()
    uncaught  \* an error was thrown inside a file-system callback

svars == <<bot, procs, opens, calls, ret, ncalls, nevents, crashed>>
pvars == <<inst, host, fs, initp, dl, uncaught>>
vars == <<bot, procs, opens, calls, ret, ncalls, nevents, crashed,
          inst, host, fs, initp, dl, uncaught>>

----------------------------------------------------------------------------
(* Bounds of the model. *)

MaxCalls == 3     \* public calls (open, close, prompt) in one behaviour
MaxEvents == 3    \* stdout events (data chunks, errors) in one behaviour

(* The values a caller or the child process may supply. *)
Prompts == {"hi"}
Chunks ==
    { <<"a">>,
      <<">">>,
      <<"ESC", "LF", ">">>,
      <<"a", "LF", "ESC", "LF", ">">>,
      <<"a", "ESC", "LF", ">">> }

----------------------------------------------------------------------------
(* Program constants. *)

Null == 0
IdleTimeoutMs == 4000
TickMs == IdleTimeoutMs \div 2   \* granularity of time in the model

----------------------------------------------------------------------------
(* Strings. *)

\* String.prototype.includes, for a one-character needle
includes(text, ch) == \E i \in 1..Len(text) : text[i] = ch

\* String.prototype.endsWith, for a one-character needle
endsWith(text, ch) == Len(text) > 0 /\ text[Len(text)] = ch

\* finalResponse.slice(0, -1)
sliceLast(text) == SubSeq(text, 1, Len(text) - 1)

\* /^\u{001B}.*\n>\s?/mu.test(text): at some start of line an ESC, then any
\* characters other than a line terminator, then a newline, then '>'.
\* The optional \s matches the empty string, so it constrains nothing.
EndPattern(text) ==
    \E i \in 1..Len(text) :
        /\ (i = 1 \/ text[i - 1] = "LF")
        /\ text[i] = "ESC"
        /\ \E j \in (i + 1)..(Len(text) - 1) :
              /\ \A k \in (i + 1)..(j - 1) : text[k] # "LF"
              /\ text[j] = "LF"
              /\ text[j + 1] = ">"

----------------------------------------------------------------------------
(* Child processes. *)

\* spawn(...): a fresh process with its stdin and stdout piped
spawn(ps) ==
    Append(ps, [killed |-> FALSE, killedAfter |-> 0, stdin |-> <<>>,
                marker |-> FALSE])

\* ChildProcess.kill(): the signal is sent and the call returns at once.
\* killedAfter records how many processes had been spawned by then.
kill(ps, p) == [ps EXCEPT ![p].killed = TRUE, ![p].killedAfter = Len(ps)]

\* close() that drops the handle without signalling the process
closeForget(st) == [bot |-> Null, procs |-> st.procs]

\* GPT4All.close, on the pair (this.bot, the processes)
close(st) ==
    IF st.bot = Null
    THEN st
    ELSE [bot |-> Null, procs |-> kill(st.procs, st.bot)]

----------------------------------------------------------------------------
(* The promise and the callbacks of one prompt() call. *)

\* prompt() that arms the inactivity timer as it sends the prompt
NewCallArmed(p) ==
    [pid |-> p, status |-> "pending", result |-> <<>>, response |-> <<>>,
     dataL |-> TRUE, errL |-> TRUE, timeoutId |-> 1, ntimers |-> 1,
     timers |-> {[id |-> 1, rem |-> IdleTimeoutMs]},
     via |-> "none", heard |-> <<>>, quiet |-> 0]

\* the state prompt() sets up after writing to stdin
NewCall(p) ==
    [pid |-> p, status |-> "pending", result |-> <<>>, response |-> <<>>,
     dataL |-> TRUE, errL |-> TRUE, timeoutId |-> 0, ntimers |-> 0,
     timers |-> {},
     \* history: how it settled, what its data listener was given, and the
     \* time since that listener last ran
     via |-> "none", heard |-> <<>>, quiet |-> 0]

\* resolve(value) of a promise: the first settlement wins
resolve(c, value, how) ==
    IF c.status = "pending"
    THEN [c EXCEPT !.status = "resolved", !.result = value, !.via = how]
    ELSE c

\* reject(err) of a promise
reject(c) ==
    IF c.status = "pending"
    THEN [c EXCEPT !.status = "rejected", !.via = "error"]
    ELSE c

\* a data callback that leaves the previous timer armed
clearTimeoutNever(c) == c

\* clearTimeout(timeoutId), guarded by if (timeoutId)
clearTimeout(c) ==
    IF c.timeoutId # 0
    THEN [c EXCEPT !.timers = {t \in @ : t.id # c.timeoutId}]
    ELSE c

\* a data callback that arms no timer
setTimeoutNever(c) == c

\* timeoutId = setTimeout(..., 4000)
setTimeout(c) ==
    [c EXCEPT !.ntimers = @ + 1,
              !.timeoutId = c.ntimers + 1,
              !.timers = @ \cup {[id |-> c.ntimers + 1, rem |-> IdleTimeoutMs]}]

terminateAndResolve(c, finalResponse, how) ==
    LET detached == [c EXCEPT !.dataL = FALSE, !.errL = FALSE]
        final == IF endsWith(finalResponse, ">")
                 THEN sliceLast(finalResponse)
                 ELSE finalResponse
    IN resolve(detached, final, how)

\* a data callback that appends the chunk before it looks for the end pattern
onStdoutDataAppendFirst(c, text) ==
    LET c1 == [clearTimeout(c) EXCEPT !.response = @ \o text]
    IN IF EndPattern(text)
       THEN terminateAndResolve(c1, c1.response, "end")
       ELSE setTimeout(c1)

onStdoutData(c, text) ==
    LET c1 == clearTimeout(c)
        c2 == IF EndPattern(text)
              THEN terminateAndResolve(c1, c1.response, "end")
              ELSE setTimeout(c1)
    IN [c2 EXCEPT !.response = @ \o text]

\* an error callback that forgets the data listener
onStdoutErrorKeepsData(c) ==
    reject([c EXCEPT !.errL = FALSE])

onStdoutError(c) ==
    reject([c EXCEPT !.dataL = FALSE, !.errL = FALSE])

\* the callback given to setTimeout, for the timer t of call c
onTimeout(c, t) ==
    terminateAndResolve([c EXCEPT !.timers = @ \ {t}], c.response, "timeout")

\* a readiness listener that takes any output for the marker
onOpenDataAnyChunk(o, text) ==
    IF o.status = "pending" THEN [o EXCEPT !.status = "resolved"] ELSE o

\* the 'data' listener open() installs: resolve(true) once a chunk has '>'
onOpenData(o, text) ==
    IF includes(text, ">") /\ o.status = "pending"
    THEN [o EXCEPT !.status = "resolved"]
    ELSE o

----------------------------------------------------------------------------
(* Public calls. *)

\* open() that spawns the new process before it closes the old one
OpenSpawnFirst ==
    /\ ~crashed
    /\ ncalls < MaxCalls
    /\ LET ps == spawn(procs)
           st == IF bot # Null
                 THEN close([bot |-> bot, procs |-> ps])
                 ELSE [bot |-> bot, procs |-> ps]
       IN /\ procs' = st.procs
          /\ bot' = Len(ps)
          /\ opens' = Append(opens, [pid |-> Len(ps), status |-> "pending"])
    /\ ret' = [op |-> "open", outcome |-> "returned"]
    /\ ncalls' = ncalls + 1
    /\ UNCHANGED <<calls, nevents, crashed, pvars>>

Open ==
    /\ ~crashed
    /\ ncalls < MaxCalls
    /\ LET st == IF bot # Null
                 THEN close([bot |-> bot, procs |-> procs])
                 ELSE [bot |-> bot, procs |-> procs]
           ps == spawn(st.procs)
       IN /\ procs' = ps
          /\ bot' = Len(ps)
          /\ opens' = Append(opens, [pid |-> Len(ps), status |-> "pending"])
    /\ ret' = [op |-> "open", outcome |-> "returned"]
    /\ ncalls' = ncalls + 1
    /\ UNCHANGED <<calls, nevents, crashed, pvars>>

\* close() that throws when there is no process, as prompt() does
CloseStrict ==
    /\ ~crashed
    /\ ncalls < MaxCalls
    /\ LET st == close([bot |-> bot, procs |-> procs])
       IN /\ bot' = st.bot
          /\ procs' = st.procs
    /\ ret' = [op |-> "close",
               outcome |-> IF bot = Null THEN "threw" ELSE "returned"]
    /\ ncalls' = ncalls + 1
    /\ UNCHANGED <<opens, calls, nevents, crashed, pvars>>

\* close() that also detaches the listeners and cancels the timers of the
\* prompt calls in flight on the process it terminates
CloseDetaches ==
    /\ ~crashed
    /\ ncalls < MaxCalls
    /\ LET st == close([bot |-> bot, procs |-> procs])
       IN /\ bot' = st.bot
          /\ procs' = st.procs
    /\ calls' = [c \in DOMAIN calls |->
                    IF calls[c].pid = bot
                    THEN [calls[c] EXCEPT !.dataL = FALSE, !.errL = FALSE,
                                          !.timers = {}]
                    ELSE calls[c]]
    /\ ret' = [op |-> "close", outcome |-> "returned"]
    /\ ncalls' = ncalls + 1
    /\ UNCHANGED <<opens, nevents, crashed, pvars>>

Close ==
    /\ ~crashed
    /\ ncalls < MaxCalls
    /\ LET st == close([bot |-> bot, procs |-> procs])
       IN /\ bot' = st.bot
          /\ procs' = st.procs
    /\ ret' = [op |-> "close", outcome |-> "returned"]
    /\ ncalls' = ncalls + 1
    /\ UNCHANGED <<opens, calls, nevents, crashed, pvars>>

\* prompt() that makes its null check inside the promise: it returns a
\* rejected promise instead of throwing
PromptLateCheck(text) ==
    /\ ~crashed
    /\ ncalls < MaxCalls
    /\ ncalls' = ncalls + 1
    /\ IF bot = Null
       THEN /\ calls' = Append(calls, reject(NewCall(Null)))
            /\ UNCHANGED procs
       ELSE /\ procs' = [procs EXCEPT ![bot].stdin = Append(@, text \o "\n")]
            /\ calls' = Append(calls, NewCall(bot))
    /\ ret' = [op |-> "prompt", outcome |-> "returned"]
    /\ UNCHANGED <<bot, opens, nevents, crashed, pvars>>

Prompt(text) ==
    /\ ~crashed
    /\ ncalls < MaxCalls
    /\ ncalls' = ncalls + 1
    /\ IF bot = Null
       THEN /\ ret' = [op |-> "prompt", outcome |-> "threw"]
            /\ UNCHANGED <<procs, calls>>
       ELSE /\ procs' = [procs EXCEPT ![bot].stdin = Append(@, text \o "\n")]
            /\ calls' = Append(calls, NewCall(bot))
            /\ ret' = [op |-> "prompt", outcome |-> "returned"]
    /\ UNCHANGED <<bot, opens, nevents, crashed, pvars>>

----------------------------------------------------------------------------
(* Events. *)

\* a stdout that hands each chunk to the latest prompt call only
DataToLatest(p, text) ==
    /\ ~crashed
    /\ nevents < MaxEvents
    /\ nevents' = nevents + 1
    /\ procs' = [procs EXCEPT ![p].marker = @ \/ includes(text, ">")]
    /\ opens' = [o \in DOMAIN opens |->
                    IF opens[o].pid = p THEN onOpenData(opens[o], text)
                    ELSE opens[o]]
    /\ calls' = [c \in DOMAIN calls |->
                    IF calls[c].pid = p /\ calls[c].dataL /\ c = Len(calls)
                    THEN [onStdoutData(calls[c], text) EXCEPT
                             !.heard = Append(@, text), !.quiet = 0]
                    ELSE calls[c]]
    /\ UNCHANGED <<bot, ret, ncalls, crashed, pvars>>

\* The stdout of process p emits a 'data' event.  A process that was sent
\* the termination signal may still have output under way.
Data(p, text) ==
    /\ ~crashed
    /\ nevents < MaxEvents
    /\ nevents' = nevents + 1
    /\ procs' = [procs EXCEPT ![p].marker = @ \/ includes(text, ">")]
    /\ opens' = [o \in DOMAIN opens |->
                    IF opens[o].pid = p THEN onOpenData(opens[o], text)
                    ELSE opens[o]]
    /\ calls' = [c \in DOMAIN calls |->
                    IF calls[c].pid = p /\ calls[c].dataL
                    THEN [onStdoutData(calls[c], text) EXCEPT
                             !.heard = Append(@, text), !.quiet = 0]
                    ELSE calls[c]]
    /\ UNCHANGED <<bot, ret, ncalls, crashed, pvars>>

\* an error event that also closes the session
StdoutErrorCloses(p) ==
    /\ ~crashed
    /\ nevents < MaxEvents
    /\ nevents' = nevents + 1
    /\ IF \E c \in DOMAIN calls : calls[c].pid = p /\ calls[c].errL
       THEN /\ calls' = [c \in DOMAIN calls |->
                           IF calls[c].pid = p /\ calls[c].errL
                           THEN onStdoutError(calls[c])
                           ELSE calls[c]]
            /\ LET st == close([bot |-> bot, procs |-> procs])
               IN bot' = st.bot /\ procs' = st.procs
            /\ UNCHANGED crashed
       ELSE /\ crashed' = TRUE
            /\ UNCHANGED <<calls, bot, procs>>
    /\ UNCHANGED <<opens, ret, ncalls, pvars>>

\* The stdout of process p emits an 'error' event.
StdoutError(p) ==
    /\ ~crashed
    /\ nevents < MaxEvents
    /\ nevents' = nevents + 1
    /\ IF \E c \in DOMAIN calls : calls[c].pid = p /\ calls[c].errL
       THEN /\ calls' = [c \in DOMAIN calls |->
                           IF calls[c].pid = p /\ calls[c].errL
                           THEN onStdoutError(calls[c])
                           ELSE calls[c]]
            /\ UNCHANGED crashed
       ELSE /\ crashed' = TRUE
            /\ UNCHANGED calls
    /\ UNCHANGED <<bot, procs, opens, ret, ncalls, pvars>>

\* A timer whose delay has elapsed runs its callback.
TimerFire(c) ==
    /\ ~crashed
    /\ \E t \in calls[c].timers :
          /\ t.rem = 0
          /\ calls' = [calls EXCEPT ![c] = onTimeout(calls[c], t)]
    /\ UNCHANGED <<bot, procs, opens, ret, ncalls, nevents, crashed, pvars>>

Elapse(n) == IF n > TickMs THEN n - TickMs ELSE 0
Later(n) == IF n + TickMs < IdleTimeoutMs THEN n + TickMs ELSE IdleTimeoutMs

\* Time passes.
Tick ==
    /\ ~crashed
    /\ \E c \in DOMAIN calls :
          \/ calls[c].quiet < IdleTimeoutMs
          \/ \E t \in calls[c].timers : t.rem > 0
    /\ calls' = [c \in DOMAIN calls |->
                    [calls[c] EXCEPT
                        !.quiet = Later(@),
                        !.timers = {[t EXCEPT !.rem = Elapse(@)] : t \in @}]]
    /\ UNCHANGED <<bot, procs, opens, ret, ncalls, nevents, crashed, pvars>>

----------------------------------------------------------------------------
(* The state of a controller just constructed. *)

SessionInit ==
    /\ bot = Null
    /\ procs = <<>>
    /\ opens = <<>>
    /\ calls = <<>>
    /\ ret = [op |-> "none", outcome |-> "none"]
    /\ ncalls = 0
    /\ nevents = 0
    /\ crashed = FALSE

----------------------------------------------------------------------------
(* The provisioner. *)

availableModels ==
    {"gpt4all-lora-quantized", "gpt4all-lora-unfiltered-quantized"}

\* what a caller may pass as the model; "undefined" is the argument left out
ModelArgs == availableModels \cup {"undefined", "gpt4all-j", ""}

NoInstance == [state |-> "none", model |-> "none", modelPath |-> "none"]

\* the instance the constructor leaves for a supported model
Instance(model) ==
    [state |-> "constructed", model |-> model, modelPath |-> model \o ".bin"]

\* a constructor that makes no check of the model
ConstructUnchecked(model) ==
    /\ inst.state = "none"
    /\ inst' = Instance(IF model = "undefined" THEN "gpt4all-lora-quantized"
                        ELSE model)
    /\ UNCHANGED <<svars, host, fs, initp, dl, uncaught>>

\* new GPT4All(model)
Construct(model) ==
    /\ inst.state = "none"
    /\ LET m == IF model = "undefined" THEN "gpt4all-lora-quantized"
                ELSE model
       IN inst' = IF m \in availableModels
                  THEN Instance(m)
                  ELSE [state |-> "threw", model |-> m, modelPath |-> "none"]
    /\ UNCHANGED <<svars, host, fs, initp, dl, uncaught>>

Artifacts == {"exe", "model"}
Platforms == {"darwin", "linux", "win32", "freebsd"}
Archs == {"arm64", "x86_64"}
Dir == "dir"    \* <home>/.nomic/

NoDownload ==
    [phase |-> "none", url |-> "none", mkdirCb |-> "none", writer |-> "none",
     chmodCb |-> "none", source |-> "none"]

\* the session controller's runs start with both artifacts in place
ProvisionedInit ==
    /\ inst = Instance("gpt4all-lora-quantized")
    /\ host = [platform |-> "linux", arch |-> "x86_64"]
    /\ fs = [f \in Artifacts \cup {Dir} |-> TRUE]
    /\ initp = [state |-> "idle", forceDownload |-> FALSE]
    /\ dl = [a \in Artifacts |-> NoDownload]
    /\ uncaught = FALSE

\* downloadFile up to its await: axios.get(url, {responseType: 'stream'})
downloadFile(d, url) == [d EXCEPT !.phase = "get", !.url = url]

\* downloadExecutable up to its first await, or to its throw
downloadExecutable(d, platform) ==
    CASE platform = "darwin" -> [d EXCEPT !.phase = "uname"]
      [] platform = "linux" -> downloadFile(d, "linux-x86")
      [] platform = "win32" -> downloadFile(d, "win64.exe")
      [] OTHER -> [d EXCEPT !.phase = "rejected"]

\* downloadModel up to its await
downloadModel(d) == downloadFile(d, "model.bin")

\* init() that looks only at the file
mustDownloadIfMissing(forceDownload, exists) == ~exists

\* the condition under which init() starts the download of artifact a
mustDownload(forceDownload, exists) == forceDownload \/ ~exists

\* Promise.all over the downloads that were started
all(ds) ==
    IF \E a \in Artifacts : ds[a].phase = "rejected" THEN "rejected"
    ELSE IF \A a \in Artifacts : ds[a].phase \in {"none", "resolved"}
         THEN "resolved"
         ELSE "pending"

settle(p, ds) == IF p.state = "pending" THEN [p EXCEPT !.state = all(ds)] ELSE p

InitCall(forceDownload) ==
    /\ inst.state = "constructed"
    /\ initp.state = "idle"
    /\ LET ds == [a \in Artifacts |->
                    IF mustDownload(forceDownload, fs[a])
                    THEN IF a = "exe"
                         THEN downloadExecutable(dl[a], host.platform)
                         ELSE downloadModel(dl[a])
                    ELSE dl[a]]
       IN /\ dl' = ds
          /\ initp' = [state |-> all(ds), forceDownload |-> forceDownload]
    /\ UNCHANGED <<svars, inst, host, fs, uncaught>>

\* exec('uname -m') answers: the URL is chosen and downloadFile begins
UnameDone ==
    /\ ~uncaught
    /\ dl["exe"].phase = "uname"
    /\ dl' = [dl EXCEPT !["exe"] =
                 downloadFile(@, IF host.arch = "arm64" THEN "OSX-m1"
                                 ELSE "OSX-intel")]
    /\ UNCHANGED <<svars, inst, host, fs, initp, uncaught>>

\* exec('uname -m') fails: the await throws
UnameFails ==
    /\ ~uncaught
    /\ dl["exe"].phase = "uname"
    /\ dl' = [dl EXCEPT !["exe"].phase = "rejected"]
    /\ initp' = settle(initp, dl')
    /\ UNCHANGED <<svars, inst, host, fs, uncaught>>

\* axios.get rejects
GetFails(a) ==
    /\ ~uncaught
    /\ dl[a].phase = "get"
    /\ dl' = [dl EXCEPT ![a].phase = "rejected"]
    /\ initp' = settle(initp, dl')
    /\ UNCHANGED <<svars, inst, host, fs, uncaught>>

\* axios.get resolves with the response stream: mkdir is requested, the
\* write stream is created (its file is opened later) and the pipe is set up
Response(a) ==
    /\ ~uncaught
    /\ dl[a].phase = "get"
    /\ dl' = [dl EXCEPT ![a].phase = "writing", ![a].mkdirCb = "pending",
                        ![a].writer = "opening", ![a].source = "flowing"]
    /\ UNCHANGED <<svars, inst, host, fs, initp, uncaught>>

\* mkdir(dir, {recursive: true}) completes and its callback runs
MkdirDone(a, ok) ==
    /\ ~uncaught
    /\ dl[a].mkdirCb = "pending"
    /\ dl' = [dl EXCEPT ![a].mkdirCb = IF ok THEN "ok" ELSE "err"]
    /\ fs' = [fs EXCEPT ![Dir] = @ \/ ok]
    /\ uncaught' = ~ok
    /\ UNCHANGED <<svars, inst, host, initp>>

\* the write stream opens its file: it fails if the directory is missing
WriterOpen(a) ==
    /\ ~uncaught
    /\ dl[a].writer = "opening"
    /\ IF fs[Dir]
       THEN /\ dl' = [dl EXCEPT ![a].writer = "open"]
            /\ fs' = [fs EXCEPT ![a] = TRUE]
            /\ UNCHANGED initp
       ELSE /\ dl' = [dl EXCEPT ![a].writer = "error", ![a].phase = "rejected"]
            /\ initp' = settle(initp, dl')
            /\ UNCHANGED fs
    /\ UNCHANGED <<svars, inst, host, uncaught>>

\* the write stream emits 'error' while the body is piped into it
WriterError(a) ==
    /\ ~uncaught
    /\ dl[a].phase = "writing"
    /\ dl[a].writer = "open"
    /\ dl' = [dl EXCEPT ![a].writer = "error", ![a].phase = "rejected"]
    /\ initp' = settle(initp, dl')
    /\ UNCHANGED <<svars, inst, host, fs, uncaught>>

\* The response stream emits 'error' while its body is piped.  The code
\* attaches no 'error' listener to it and pipe() forwards no error to the
\* write stream, which is left open and never ended.  If the HTTP library
\* listens for errors on the stream itself the event ends there; if not,
\* it is an uncaught exception.
SourceError(a, listened) ==
    /\ ~uncaught
    /\ dl[a].phase = "writing"
    /\ dl[a].source = "flowing"
    /\ dl' = [dl EXCEPT ![a].source = "error"]
    /\ uncaught' = ~listened
    /\ UNCHANGED <<svars, inst, host, fs, initp>>

\* the response stream ends, the pipe ends the write stream and it emits
\* 'finish': downloadFile resolves; for the executable chmod is requested,
\* and the download's promise resolves
WriterFinish(a) ==
    /\ ~uncaught
    /\ dl[a].phase = "writing"
    /\ dl[a].writer = "open"
    /\ dl[a].source = "flowing"
    /\ dl' = [dl EXCEPT ![a].writer = "finished", ![a].phase = "resolved",
                        ![a].source = "ended",
                        ![a].chmodCb = IF a = "exe" THEN "pending" ELSE @]
    /\ initp' = settle(initp, dl')
    /\ UNCHANGED <<svars, inst, host, fs, uncaught>>

\* chmod(executablePath, 0o755) completes and its callback runs
ChmodDone(ok) ==
    /\ ~uncaught
    /\ dl["exe"].chmodCb = "pending"
    /\ dl' = [dl EXCEPT !["exe"].chmodCb = IF ok THEN "ok" ELSE "err"]
    /\ uncaught' = ~ok
    /\ UNCHANGED <<svars, inst, host, fs, initp>>

ProvInit ==
    /\ SessionInit
    /\ inst = NoInstance
    /\ host \in [platform : Platforms, arch : Archs]
    /\ fs \in [Artifacts \cup {Dir} -> BOOLEAN]
    /\ \A a \in Artifacts : fs[a] => fs[Dir]
    /\ initp = [state |-> "idle", forceDownload |-> FALSE]
    /\ dl = [a \in Artifacts |-> NoDownload]
    /\ uncaught = FALSE

ProvNext ==
    \/ \E model \in ModelArgs : Construct(model)
    \/ \E forceDownload \in BOOLEAN : InitCall(forceDownload)
    \/ UnameDone
    \/ UnameFails
    \/ \E a \in Artifacts : GetFails(a)
    \/ \E a \in Artifacts : Response(a)
    \/ \E a \in Artifacts, ok \in BOOLEAN : MkdirDone(a, ok)
    \/ \E a \in Artifacts : WriterOpen(a)
    \/ \E a \in Artifacts : WriterError(a)
    \/ \E a \in Artifacts, listened \in BOOLEAN : SourceError(a, listened)
    \/ \E a \in Artifacts : WriterFinish(a)
    \/ \E ok \in BOOLEAN : ChmodDone(ok)

ProvSpec == ProvInit /\ [][ProvNext]_vars

----------------------------------------------------------------------------
(* The session controller. *)

Init ==
    /\ SessionInit
    /\ ProvisionedInit

Next ==
    \/ Open
    \/ Close
    \/ \E text \in Prompts : Prompt(text)
    \/ \E p \in DOMAIN procs, text \in Chunks : Data(p, text)
    \/ \E p \in DOMAIN procs : StdoutError(p)
    \/ \E c \in DOMAIN calls : TimerFire(c)
    \/ Tick

Spec == Init /\ [][Next]_vars

\* The event loop: time passes, and a timer whose delay has elapsed is run.
Fairness ==
    /\ WF_vars(Tick)
    /\ WF_vars(\E c \in DOMAIN calls : TimerFire(c))

LiveSpec == Spec /\ Fairness

----------------------------------------------------------------------------
(* Vocabulary of the properties. *)

RECURSIVE Concat(_)
\* the chunks of a sequence joined in order
Concat(chunks) ==
    IF chunks = <<>> THEN <<>> ELSE Head(chunks) \o Concat(Tail(chunks))

\* a text without its last character when that character is '>'
WithoutTrailingMarker(text) ==
    IF Len(text) > 0 /\ text[Len(text)] = ">"
    THEN SubSeq(text, 1, Len(text) - 1)
    ELSE text

\* this step is a public call of the named operation
IsCall(op) == ncalls' = ncalls + 1 /\ ret'.op = op

\* the session controller's state other than the record of the last call
Controller == <<bot, procs, opens, calls, nevents, crashed>>

\* prompt call c is in flight
InFlight(c) == calls[c].status = "pending"

\* prompt call c is in flight on a process that was sent the signal
TornDown(c) == InFlight(c) /\ procs[calls[c].pid].killed

----------------------------------------------------------------------------
(* C1: whenever the controller holds no process handle, a prompt() call    *)
(* throws and changes nothing: no write to any stdin, no listener and no   *)
(* timer (no call record), and the handle stays null.                      *)
C1_PromptWithoutHandleThrows ==
    [][(IsCall("prompt") /\ bot = Null) =>
          (ret'.outcome = "threw" /\ bot' = Null /\ UNCHANGED Controller)]_vars

\* prompt() has thrown on a controller that was opened and closed
C1_Witness ==
    /\ ret = [op |-> "prompt", outcome |-> "threw"]
    /\ bot = Null
    /\ Len(procs) = 1
    /\ procs[1].killed

(* C2: whenever an open() call's promise resolves, the handle refers to    *)
(* the process spawned by that call, and that process has not been sent    *)
(* the termination signal.                                                 *)
C2_OpenResolvesReady ==
    [][\A o \in DOMAIN opens :
          (opens[o].status = "pending" /\ opens'[o].status = "resolved") =>
              (bot' = opens[o].pid /\ ~procs'[opens[o].pid].killed)]_vars

(* C3: a prompt call whose listener is handed chunks c1..cn and then a     *)
(* chunk matching the end pattern is resolved by that chunk, with the      *)
(* concatenation of c1..cn less one trailing '>'.                          *)
C3_EndOfTurnResolves ==
    \A c \in DOMAIN calls :
        LET h == calls[c].heard
        IN (h # <<>> /\ EndPattern(h[Len(h)])) =>
              /\ calls[c].status = "resolved"
              /\ calls[c].via = "end"
              /\ \A i \in 1..(Len(h) - 1) : ~EndPattern(h[i])
              /\ calls[c].result =
                    WithoutTrailingMarker(Concat(SubSeq(h, 1, Len(h) - 1)))

\* a call resolved by the end-of-turn chunk after two chunks, the second
\* ending in '>', which is removed
C3_Witness ==
    \E c \in DOMAIN calls :
        /\ calls[c].via = "end"
        /\ Len(calls[c].heard) = 3
        /\ calls[c].heard[2] = <<">">>
        /\ calls[c].result = calls[c].heard[1]

(* C4, as amended: a call has at most one timer armed, it is the one armed *)
(* by the last chunk its listener was given, that chunk did not match the  *)
(* end pattern, and its remaining delay is the timeout less the time since *)
(* that chunk; a call resolved by its timer was resolved a full timeout    *)
(* after its last chunk, with the text buffered less one trailing '>'.     *)
C4_QuietPeriod ==
    \A c \in DOMAIN calls :
        LET k == calls[c]
            h == calls[c].heard
        IN /\ Cardinality(k.timers) <= 1
           /\ \A t \in k.timers :
                 /\ t.id = k.timeoutId
                 /\ h # <<>>
                 /\ ~EndPattern(h[Len(h)])
                 /\ t.rem = IdleTimeoutMs - k.quiet
           /\ k.via = "timeout" =>
                 /\ k.status = "resolved"
                 /\ k.quiet = IdleTimeoutMs
                 /\ k.timers = {}
                 /\ h # <<>>
                 /\ \A i \in 1..Len(h) : ~EndPattern(h[i])
                 /\ k.result = WithoutTrailingMarker(Concat(h))

\* a call resolved by its timer after the timer was armed twice
C4_Witness ==
    \E c \in DOMAIN calls :
        /\ calls[c].via = "timeout"
        /\ calls[c].ntimers = 2
        /\ Len(calls[c].heard) = 2

(* C4 as stated: a call resolved by its timer is resolved with exactly     *)
(* what was buffered.                                                      *)
C4_ResolvesWithBuffer ==
    \A c \in DOMAIN calls :
        calls[c].via = "timeout" => calls[c].result = Concat(calls[c].heard)

(* C5: open() on a controller that holds a process sends that process the  *)
(* signal while the new process is not yet spawned, does not throw, and    *)
(* leaves the handle on the new, unsignalled process.                      *)
C5_ReopenKillsFirst ==
    [][(IsCall("open") /\ bot # Null) =>
          /\ ret'.outcome = "returned"
          /\ Len(procs') = Len(procs) + 1
          /\ procs'[bot].killed
          /\ procs'[bot].killedAfter = Len(procs)
          /\ bot' = Len(procs')
          /\ ~procs'[bot'].killed]_vars

\* a second open() was made on a session that had become Ready
C5_Witness ==
    /\ ret.op = "open"
    /\ Len(procs) = 2
    /\ bot = 2
    /\ procs[1].killed
    /\ opens[1].status = "resolved"
    /\ opens[2].status = "pending"

(* C6: every process that was not sent the signal is the one the handle    *)
(* refers to, and the handle refers to no signalled process.               *)
C6_AtMostOneSession ==
    /\ \A p \in DOMAIN procs : ~procs[p].killed => p = bot
    /\ bot # Null => (bot \in DOMAIN procs /\ ~procs[bot].killed)

\* the second of two processes is live, after a prompt made on the first
C6_Witness ==
    /\ Len(procs) = 2
    /\ bot = 2
    /\ \E c \in DOMAIN calls : calls[c].pid = 1
    /\ procs[1].killed

(* C7: a prompt() call made while the process held has not yet emitted a   *)
(* chunk containing '>' throws and writes nothing.                         *)
C7_PromptWhileStartingThrows ==
    [][(IsCall("prompt") /\ bot # Null /\ ~procs[bot].marker) =>
          (ret'.outcome = "threw" /\ UNCHANGED <<procs, calls>>)]_vars

C9_CloseWhenClosedIsNoOp ==
    [][(IsCall("close") /\ bot = Null) =>
          (ret'.outcome = "returned" /\ bot' = Null /\ UNCHANGED Controller)]_vars

\* close() has returned as the second call on a controller never opened
C9_Witness ==
    /\ ret = [op |-> "close", outcome |-> "returned"]
    /\ ncalls = 2
    /\ procs = <<>>
    /\ bot = Null

(* C10: init(forceDownload) starts the download of an artifact exactly     *)
(* when forceDownload is set or the artifact's file does not exist, and no *)
(* download starts later; with nothing to download its promise resolves.   *)
C10_DownloadsIffForcedOrMissing ==
    [][/\ (initp.state = "idle" /\ initp'.state # "idle") =>
             /\ \A a \in Artifacts :
                   (dl'[a].phase # "none") <=>
                       (initp'.forceDownload \/ ~fs[a])
             /\ (\A a \in Artifacts : dl'[a].phase = "none") =>
                   initp'.state = "resolved"
       /\ initp.state # "idle" =>
             \A a \in Artifacts :
                 (dl[a].phase = "none") <=> (dl'[a].phase = "none")]_vars

\* init(true) with both files present has both downloads waiting for their
\* responses
C10_Witness ==
    /\ initp = [state |-> "pending", forceDownload |-> TRUE]
    /\ fs["exe"] /\ fs["model"]
    /\ \A a \in Artifacts : dl[a].phase = "get"

(* C11: a download whose response stream or whose write stream has failed  *)
(* is rejected, and so is init().                                          *)
C11_MidStreamFailureRejects ==
    \A a \in Artifacts :
        (dl[a].source = "error" \/ dl[a].writer = "error") =>
            (dl[a].phase = "rejected" /\ initp.state = "rejected")

(* C12: init() has resolved after downloading the executable only if the   *)
(* permission change has completed, and completed without error.           *)
C12_ChmodBeforeResolve ==
    (initp.state = "resolved" /\ dl["exe"].phase = "resolved") =>
        dl["exe"].chmodCb = "ok"

(* C13: the constructor leaves an instance exactly for the supported model *)
(* names and throws exactly for the others, so every instance is bound to  *)
(* a supported model.                                                      *)
C13_OnlySupportedModels ==
    /\ inst.state = "constructed" =>
          inst.model \in
              {"gpt4all-lora-quantized", "gpt4all-lora-unfiltered-quantized"}
    /\ inst.state = "threw" =>
          inst.model \notin
              {"gpt4all-lora-quantized", "gpt4all-lora-unfiltered-quantized"}
    /\ initp.state # "idle" => inst.state = "constructed"

\* the constructor has thrown for a model name that is not supported
C13_Witness == inst = [state |-> "threw", model |-> "gpt4all-j",
                       modelPath |-> "none"]

(* C14: the data listener and the error listener of a prompt call are     *)
(* attached and detached together; a call in flight has both attached and  *)
(* a settled call has neither.                                             *)
C14_SettledCallsHoldNoListener ==
    \A c \in DOMAIN calls :
        /\ calls[c].dataL = calls[c].errL
        /\ InFlight(c) => (calls[c].dataL /\ calls[c].errL)
        /\ ~InFlight(c) => (~calls[c].dataL /\ ~calls[c].errL)

\* one call resolved by the end-of-turn chunk and a later one rejected by a
\* stream error, both with their listeners detached
C14_Witness ==
    \E c1, c2 \in DOMAIN calls :
        /\ calls[c1].via = "end" /\ ~calls[c1].dataL /\ ~calls[c1].errL
        /\ calls[c2].via = "error" /\ ~calls[c2].dataL /\ ~calls[c2].errL

(* C15: a step that rejects an in-flight prompt call changes nothing but   *)
(* the calls listening on that stream: the handle, the processes (no       *)
(* signal, no write), the open() promises stay as they were and the        *)
(* program goes on; a prompt() made while the handle is set is accepted on *)
(* the process the handle refers to.                                       *)
C15_StreamErrorRejectsOnly ==
    [][/\ (\E c \in DOMAIN calls :
              InFlight(c) /\ calls'[c].status = "rejected") =>
             /\ UNCHANGED <<bot, procs, opens, ret, ncalls, crashed>>
             /\ \A c \in DOMAIN calls :
                   \/ calls'[c] = calls[c]
                   \/ /\ calls[c].errL
                      /\ calls'[c] =
                            [calls[c] EXCEPT
                                !.dataL = FALSE, !.errL = FALSE,
                                !.status = IF InFlight(c) THEN "rejected" ELSE @,
                                !.via = IF InFlight(c) THEN "error" ELSE @]
       /\ (IsCall("prompt") /\ bot # Null) =>
             /\ ret'.outcome = "returned"
             /\ calls'[Len(calls')].pid = bot
             /\ calls'[Len(calls')].status = "pending"]_vars

\* after a stream error rejected a call, a second prompt is in flight on
\* the same process, which is still the one the handle refers to
C15_Witness ==
    \E c1, c2 \in DOMAIN calls :
        /\ calls[c1].via = "error"
        /\ c1 < c2
        /\ InFlight(c2)
        /\ calls[c2].dataL
        /\ calls[c2].pid = calls[c1].pid
        /\ bot = calls[c1].pid
        /\ ~procs[bot].killed

(* C16: an open() call is resolved exactly when the process it spawned has *)
(* emitted a chunk containing '>', whether or not that process was sent    *)
(* the signal; it is never rejected.                                       *)
C16_OpenResolvesAtFirstMarker ==
    \A o \in DOMAIN opens :
        /\ opens[o].status \in {"pending", "resolved"}
        /\ opens[o].status = "resolved" <=> procs[opens[o].pid].marker

\* the first open() is still pending on a process that close() signalled
\* and that has emitted output without '>', while a later one is resolved
C16_Witness ==
    /\ Len(opens) = 2
    /\ opens[1].status = "pending"
    /\ procs[1].killed
    /\ opens[2].status = "resolved"
    /\ nevents >= 2

(* C19: a prompt call whose listener was given no chunk has no timer and   *)
(* never had one, and it is in flight unless a stream error rejected it.   *)
C19_NoChunkNoTimer ==
    \A c \in DOMAIN calls :
        calls[c].heard = <<>> =>
            /\ calls[c].timers = {}
            /\ calls[c].ntimers = 0
            /\ calls[c].timeoutId = 0
            /\ calls[c].status \in {"pending", "rejected"}
            /\ calls[c].status = "rejected" <=> calls[c].via = "error"

\* a call still in flight a full timeout after the prompt was written, its
\* process having emitted nothing
C19_Witness ==
    \E c \in DOMAIN calls :
        /\ InFlight(c)
        /\ calls[c].heard = <<>>
        /\ calls[c].quiet = IdleTimeoutMs
        /\ calls[c].pid = bot
        /\ nevents = 0

(* C20: when two prompt calls listen on the same stdout, a chunk given to  *)
(* one is given to the other and appended to both accumulators, and an     *)
(* end-of-turn chunk resolves both.                                        *)
C20_ChunksReachEveryCall ==
    [][\A c1, c2 \in DOMAIN calls :
          (/\ c1 # c2
           /\ calls[c1].pid = calls[c2].pid
           /\ calls[c1].dataL /\ calls[c2].dataL
           /\ calls'[c1].heard # calls[c1].heard) =>
              LET x == calls'[c1].heard[Len(calls'[c1].heard)]
              IN /\ calls'[c1].heard = Append(calls[c1].heard, x)
                 /\ calls'[c2].heard = Append(calls[c2].heard, x)
                 /\ calls'[c1].response = calls[c1].response \o x
                 /\ calls'[c2].response = calls[c2].response \o x
                 /\ EndPattern(x) =>
                       /\ calls'[c1].via = "end" /\ calls'[c1].status = "resolved"
                       /\ calls'[c2].via = "end" /\ calls'[c2].status = "resolved"]_vars

\* two calls on one process resolved by the same end-of-turn chunk, the
\* first with the chunk that preceded the second prompt
C20_Witness ==
    /\ Len(calls) = 2
    /\ calls[1].pid = calls[2].pid
    /\ calls[1].via = "end" /\ calls[2].via = "end"
    /\ Len(calls[1].heard) = 2 /\ Len(calls[2].heard) = 1
    /\ calls[1].result = <<"a">> /\ calls[2].result = <<>>

(* C17: under the event loop's fairness, every prompt call whose listener  *)
(* has been given a chunk ends up settled, whether or not a chunk ever     *)
(* matches the end pattern, unless the program dies of an uncaught error.  *)
(* A settled call stays settled and a chunk once given stays given, so     *)
(* "eventually settled" is stated as: from some point on, no such call is  *)
(* in flight.                                                              *)
C17_QuietPeriodSettles ==
    <>[](\A c \in DOMAIN calls :
            calls[c].heard # <<>> => (~InFlight(c) \/ crashed))

\* on a Ready session that is still held, a call was resolved by its timer
\* after one chunk that did not match the end pattern
C17_Witness ==
    \E c \in DOMAIN calls :
        /\ calls[c].via = "timeout"
        /\ calls[c].heard = << <<"a">> >>
        /\ calls[c].result = <<"a">>
        /\ bot = calls[c].pid
        /\ opens[bot].status = "resolved"

(* C18: a write stream that has tried to open its file found the directory *)
(* in place, and a download whose directory creation failed is rejected.   *)
C18_DirectoryBeforeOpen ==
    \A a \in Artifacts :
        /\ dl[a].writer \notin {"none", "opening"} => fs[Dir]
        /\ dl[a].mkdirCb = "err" => dl[a].phase = "rejected"

====
